---------------------------- MODULE Spec2Model ----------------------------
(***************************************************************************)
(* Model of the bias-analysis path of the weather-forecast bias detector   *)
(* (src/analyze_template.py, class BiasAnalyzer).                           *)
(*                                                                         *)
(* Temperatures are integers in tenths of a degree, so that the default    *)
(* threshold 0.5 is the integer 5 and every mean is an exact rational      *)
(* sum/n.  Dates are day numbers; the code compares ISO 'YYYY-MM-DD' text, *)
(* whose lexicographic order is the calendar order.  Column values are     *)
(* never NULL in the stores drawn here.                                    *)
(***************************************************************************)
EXTENDS Integers, Sequences, FiniteSets, TLC

VARIABLES
    consensus,   \* table spatial_consensus: a set of rows
    actuals,     \* table actuals: a set of rows
    query,       \* arguments of the call in progress (or NoCall)
    bias_df,     \* DataFrame returned by calculate_spatial_bias
    metrics,     \* dict returned by aggregate_bias_metrics (or NoCall)
    verdict,     \* dict returned by detect_persistent_bias (or NoCall)
    horizon,     \* loop variable of export_summary_report
    results,     \* list `results` of export_summary_report
    exported,    \* the reports handed to to_csv, in order
    queried,     \* horizons whose store query was issued, in order
    pc           \* position of the call in progress

vars == <<consensus, actuals, query, bias_df, metrics, verdict,
          horizon, results, exported, queried, pc>>

----------------------------------------------------------------------------
(* Bounds of the model *)

MaxDate == 2
MaxRows == 2
MaxFree == 2
MaxRun == 30

(* Program constants *)

MIN_GRID_COUNT == 5
DEFAULT_THRESHOLD == 5
DEFAULT_MIN_DAYS == 30
NUM_HORIZONS == 10

NoCall == [called |-> FALSE]

Cities == {"NYC", "BOS"}
Dates == 1..MaxDate
SmallHorizons == {0, 1}

----------------------------------------------------------------------------
(* Pure helpers *)

Abs(x) == IF x < 0 THEN -x ELSE x

RECURSIVE SubsetsUpTo(_, _)
SubsetsUpTo(S, k) ==
    IF k = 0 THEN {{}}
    ELSE LET prev == SubsetsUpTo(S, k - 1)
         IN  prev \cup {T \cup {x} : T \in prev, x \in S}

----------------------------------------------------------------------------
(* calculate_spatial_bias: the SQL query *)

JoinOn(sc, a) == sc.city = a.city /\ sc.target_date = a.date

\* mutant: the upper bound of the date range taken as exclusive
Between_ExclusiveEnd(d, lo, hi) == lo <= d /\ d < hi

Between(d, lo, hi) == lo <= d /\ d <= hi

\* mutant: the grid-count threshold off by one
UsableGrid_OffByOne(sc) == sc.grid_count >= MIN_GRID_COUNT - 1

UsableGrid(sc) == sc.grid_count >= MIN_GRID_COUNT

Where(sc, city, start_date, end_date, h) ==
    /\ sc.city = city
    /\ Between(sc.target_date, start_date, end_date)
    /\ sc.forecast_horizon = h
    /\ UsableGrid(sc)

\* mutant: the subtraction reversed (actual minus forecast)
HighBias_Reversed(sc, a) == a.high_temp - sc.consensus_high

HighBias(sc, a) == sc.consensus_high - a.high_temp

LowBias(sc, a) == sc.consensus_low - a.low_temp

Select(sc, a) ==
    [city             |-> sc.city,
     target_date      |-> sc.target_date,
     forecast_horizon |-> sc.forecast_horizon,
     grid_count       |-> sc.grid_count,
     consensus_high   |-> sc.consensus_high,
     consensus_low    |-> sc.consensus_low,
     actual_high      |-> a.high_temp,
     actual_low       |-> a.low_temp,
     high_bias        |-> HighBias(sc, a),
     low_bias         |-> LowBias(sc, a)]

JoinedRows(cons, act, city, start_date, end_date, h) ==
    UNION {{Select(sc, a) : a \in {o \in act : JoinOn(sc, o)}} :
              sc \in {r \in cons : Where(r, city, start_date, end_date, h)}}

FirstRow(S) == CHOOSE r \in S : \A o \in S : r.target_date <= o.target_date

RECURSIVE OrderByTargetDate(_)
OrderByTargetDate(S) ==
    IF S = {} THEN <<>>
    ELSE LET r == FirstRow(S) IN <<r>> \o OrderByTargetDate(S \ {r})

calculate_spatial_bias(cons, act, city, start_date, end_date, h) ==
    OrderByTargetDate(JoinedRows(cons, act, city, start_date, end_date, h))

----------------------------------------------------------------------------
(* Numbers: a float is an exact rational num/den (den > 0), the square     *)
(* root of one, NaN, or Python's None.                                     *)

Rat(n, d) == [kind |-> "rat", num |-> n, den |-> d]

NaN == [kind |-> "nan"]

None == [kind |-> "none"]

Sqrt(x) == IF x.kind = "rat" THEN [kind |-> "sqrt", of |-> x] ELSE NaN

NumAbs(x) == IF x.kind = "rat" THEN Rat(Abs(x.num), x.den) ELSE x

\* x > t for a float x and an integer t; any comparison with NaN is False
NumGt(x, t) == x.kind = "rat" /\ x.num > t * x.den

RECURSIVE SumSeq(_)
SumSeq(xs) == IF Len(xs) = 0 THEN 0 ELSE Head(xs) + SumSeq(Tail(xs))

Column(df, name) == [i \in 1..Len(df) |-> df[i][name]]

SeriesAbs(xs) == [i \in 1..Len(xs) |-> Abs(xs[i])]

SeriesSquare(xs) == [i \in 1..Len(xs) |-> xs[i] * xs[i]]

SeriesMean(xs) == IF Len(xs) = 0 THEN NaN ELSE Rat(SumSeq(xs), Len(xs))

\* pandas Series.std(): sample standard deviation, ddof = 1
SeriesStd(xs) ==
    LET n == Len(xs)
    IN  IF n < 2 THEN NaN
        ELSE Sqrt(Rat(n * SumSeq(SeriesSquare(xs)) - SumSeq(xs) * SumSeq(xs),
                      n * (n - 1)))

EmptyDict == [k \in {} |-> 0]

Get(dict, key, default) == IF key \in DOMAIN dict THEN dict[key] ELSE default

----------------------------------------------------------------------------
(* aggregate_bias_metrics *)

\* mutant: the empty-input guard left out
NoData_Never(df) == FALSE

NoData(df) == Len(df) = 0

MaeOf(xs) == SeriesMean(SeriesAbs(xs))

\* mutant: the square taken of the mean instead of the mean of the squares
RmseOf_SquareOfMean(xs) ==
    IF Len(xs) = 0 THEN NaN
    ELSE Sqrt(Rat(SumSeq(xs) * SumSeq(xs), Len(xs) * Len(xs)))

RmseOf(xs) == Sqrt(SeriesMean(SeriesSquare(xs)))

aggregate_bias_metrics(df) ==
    IF NoData(df) THEN EmptyDict
    ELSE [n_days         |-> Len(df),
          mean_high_bias |-> SeriesMean(Column(df, "high_bias")),
          std_high_bias  |-> SeriesStd(Column(df, "high_bias")),
          mean_low_bias  |-> SeriesMean(Column(df, "low_bias")),
          std_low_bias   |-> SeriesStd(Column(df, "low_bias")),
          mae_high       |-> MaeOf(Column(df, "high_bias")),
          mae_low        |-> MaeOf(Column(df, "low_bias")),
          rmse_high      |-> RmseOf(Column(df, "high_bias")),
          rmse_low       |-> RmseOf(Column(df, "low_bias"))]

----------------------------------------------------------------------------
(* detect_persistent_bias *)

\* mutant: exactly min_days records still counted as insufficient
InsufficientData_Inclusive(df, min_days) == Len(df) <= min_days

\* mutant: min_days ignored, only an empty DataFrame counted as insufficient
InsufficientData_EmptyOnly(df, min_days) == Len(df) < 1

InsufficientData(df, min_days) == Len(df) < min_days

\* mutant: a mean whose magnitude equals the threshold counted as detected
BiasDetected_Inclusive(mean, threshold) ==
    mean.kind = "rat" /\ Abs(mean.num) >= threshold * mean.den

BiasDetected(mean, threshold) == NumGt(NumAbs(mean), threshold)

BiasDirection(mean) == IF NumGt(mean, 0) THEN "warm" ELSE "cold"

BiasMagnitude(mean) == NumAbs(mean)

detect_persistent_bias(df, threshold, min_days) ==
    IF InsufficientData(df, min_days)
    THEN [sufficient_data    |-> FALSE,
          high_bias_detected |-> FALSE,
          low_bias_detected  |-> FALSE]
    ELSE LET mean_high_bias == SeriesMean(Column(df, "high_bias"))
             mean_low_bias  == SeriesMean(Column(df, "low_bias"))
         IN  [sufficient_data     |-> TRUE,
              high_bias_detected  |-> BiasDetected(mean_high_bias, threshold),
              high_bias_direction |-> BiasDirection(mean_high_bias),
              high_bias_magnitude |-> BiasMagnitude(mean_high_bias),
              low_bias_detected   |-> BiasDetected(mean_low_bias, threshold),
              low_bias_direction  |-> BiasDirection(mean_low_bias),
              low_bias_magnitude  |-> BiasMagnitude(mean_low_bias)]

----------------------------------------------------------------------------
(* Stores of the extraction specification *)

ConsensusRows ==
    {[city |-> c, target_date |-> d, forecast_horizon |-> h,
      grid_count |-> p[1], consensus_high |-> p[2], consensus_low |-> p[3]] :
        c \in Cities, d \in Dates, h \in SmallHorizons,
        p \in {<<4, 700, 500>>, <<5, 730, 550>>}}

ActualRows ==
    {[city |-> c, date |-> d, high_temp |-> 720, low_temp |-> 560] :
        c \in Cities, d \in Dates}

ConsensusKey(r) == <<r.city, r.target_date, r.forecast_horizon>>

ActualKey(r) == <<r.city, r.date>>

UniqueConsensus(S) ==
    \A r1, r2 \in S : ConsensusKey(r1) = ConsensusKey(r2) => r1 = r2

UniqueActuals(S) ==
    \A r1, r2 \in S : ActualKey(r1) = ActualKey(r2) => r1 = r2

ConsensusStores == {S \in SubsetsUpTo(ConsensusRows, MaxRows) : UniqueConsensus(S)}

ActualStores == {S \in SubsetsUpTo(ActualRows, MaxRows) : UniqueActuals(S)}

----------------------------------------------------------------------------
(* Extraction specification: one call of calculate_spatial_bias *)

Init ==
    /\ consensus \in ConsensusStores
    /\ actuals \in ActualStores
    /\ query = NoCall
    /\ bias_df = <<>>
    /\ metrics = NoCall
    /\ verdict = NoCall
    /\ horizon = 0
    /\ results = <<>>
    /\ exported = <<>>
    /\ queried = <<>>
    /\ pc = "idle"

CalculateSpatialBias ==
    /\ pc = "idle"
    /\ \E city \in Cities, s \in Dates, e \in Dates, h \in SmallHorizons :
        /\ query' = [city |-> city, start_date |-> s, end_date |-> e, horizon |-> h]
        /\ bias_df' = calculate_spatial_bias(consensus, actuals, city, s, e, h)
    /\ queried' = Append(queried, query'.horizon)
    /\ pc' = "returned"
    /\ UNCHANGED <<consensus, actuals, metrics, verdict, horizon, results, exported>>

CalculateSpatialBiasRaises ==
    /\ pc = "idle"
    /\ \E city \in Cities, s \in Dates, e \in Dates, h \in SmallHorizons :
        query' = [city |-> city, start_date |-> s, end_date |-> e, horizon |-> h]
    /\ queried' = Append(queried, query'.horizon)
    /\ pc' = "raised"
    /\ UNCHANGED <<consensus, actuals, bias_df, metrics, verdict, horizon, results,
                   exported>>

Next == CalculateSpatialBias \/ CalculateSpatialBiasRaises

Spec == Init /\ [][Next]_vars

(* Dense stores: one usable consensus row and one observation per day, the *)
(* consensus of day i running biases[i] away from the observation.         *)

BiasPairs == {<<6, -6>>, <<5, 0>>, <<0, 5>>, <<-6, 6>>}

Rep(r, n) == [i \in 1..n |-> r]

BiasPrefixes == UNION {[1..k -> BiasPairs] : k \in 0..MaxFree}

BiasRuns == {p \o Rep(r, n) : p \in BiasPrefixes, r \in BiasPairs, n \in 0..MaxRun}

DenseConsensus(city, h, biases) ==
    {[city |-> city, target_date |-> i, forecast_horizon |-> h,
      grid_count |-> MIN_GRID_COUNT,
      consensus_high |-> 720 + biases[i][1],
      consensus_low |-> 560 + biases[i][2]] : i \in 1..Len(biases)}

DenseActuals(city, n) ==
    {[city |-> city, date |-> i, high_temp |-> 720, low_temp |-> 560] : i \in 1..n}

LastDate == MaxFree + MaxRun

----------------------------------------------------------------------------
(* Statistics specification: the sequence of calls of main(), on a dense   *)
(* store, with the parameters of detect_persistent_bias drawn from sets.   *)

ThresholdChoices == {0, DEFAULT_THRESHOLD}

MinDaysChoices == {0, 2, DEFAULT_MIN_DAYS}

StatsInit ==
    /\ \E bs \in BiasRuns :
        /\ consensus = DenseConsensus("NYC", 1, bs)
        /\ actuals = DenseActuals("NYC", Len(bs))
    /\ query = NoCall
    /\ bias_df = <<>>
    /\ metrics = NoCall
    /\ verdict = NoCall
    /\ horizon = 0
    /\ results = <<>>
    /\ exported = <<>>
    /\ queried = <<>>
    /\ pc = "idle"

StatsCalculate ==
    /\ pc = "idle"
    /\ query' = [city |-> "NYC", start_date |-> 1, end_date |-> LastDate, horizon |-> 1]
    /\ bias_df' = calculate_spatial_bias(consensus, actuals, "NYC", 1, LastDate, 1)
    /\ queried' = Append(queried, 1)
    /\ pc' = "returned"
    /\ UNCHANGED <<consensus, actuals, metrics, verdict, horizon, results, exported>>

AggregateBiasMetrics ==
    /\ pc = "returned"
    /\ metrics' = aggregate_bias_metrics(bias_df)
    /\ pc' = "aggregated"
    /\ UNCHANGED <<consensus, actuals, query, bias_df, verdict, horizon, results,
                   exported, queried>>

DetectPersistentBias ==
    /\ pc = "aggregated"
    /\ \E threshold \in ThresholdChoices, min_days \in MinDaysChoices :
        /\ query' = [threshold |-> threshold, min_days |-> min_days]
        /\ verdict' = detect_persistent_bias(bias_df, threshold, min_days)
    /\ pc' = "classified"
    /\ UNCHANGED <<consensus, actuals, bias_df, metrics, horizon, results, exported,
                   queried>>

StatsNext == StatsCalculate \/ AggregateBiasMetrics \/ DetectPersistentBias

StatsSpec == StatsInit /\ [][StatsNext]_vars

----------------------------------------------------------------------------
(* export_summary_report *)

ReportHorizons == 0..(NUM_HORIZONS - 1)

\* mutant: horizons without matched days not skipped
SkipHorizon_Never(df) == FALSE

SkipHorizon(df) == Len(df) = 0

ReportRow(city, h, m, detection) ==
    [city               |-> city,
     horizon_days       |-> h,
     n_days             |-> Get(m, "n_days", 0),
     mean_high_bias     |-> Get(m, "mean_high_bias", None),
     mean_low_bias      |-> Get(m, "mean_low_bias", None),
     mae_high           |-> Get(m, "mae_high", None),
     mae_low            |-> Get(m, "mae_low", None),
     high_bias_detected |-> Get(detection, "high_bias_detected", FALSE),
     low_bias_detected  |-> Get(detection, "low_bias_detected", FALSE)]

(* Stores of the report specification: two horizons of the sweep hold      *)
(* dense data for NYC, and rows outside the sweep or the city stand by.    *)

DayCounts == {0, 1, DEFAULT_MIN_DAYS - 1, MaxRun}

ReportPairs == {<<6, -6>>, <<0, 5>>}

Bystanders ==
    DenseConsensus("NYC", NUM_HORIZONS, Rep(<<6, -6>>, 1))
        \cup DenseConsensus("BOS", 0, Rep(<<6, -6>>, 1))

ReportInit ==
    /\ \E h1, h2 \in ReportHorizons, n1, n2 \in DayCounts, r \in ReportPairs :
        /\ h1 < h2
        /\ consensus = DenseConsensus("NYC", h1, Rep(r, n1))
                           \cup DenseConsensus("NYC", h2, Rep(<<r[2], r[1]>>, n2))
                           \cup Bystanders
    /\ actuals = DenseActuals("NYC", MaxRun)
    /\ query = NoCall
    /\ bias_df = <<>>
    /\ metrics = NoCall
    /\ verdict = NoCall
    /\ horizon = 0
    /\ results = <<>>
    /\ exported = <<>>
    /\ queried = <<>>
    /\ pc = "idle"

ExportSummaryReport ==
    /\ pc = "idle"
    /\ \E end_date \in {DEFAULT_MIN_DAYS - 1, MaxRun} :
        query' = [city |-> "NYC", start_date |-> 1, end_date |-> end_date]
    /\ results' = <<>>
    /\ horizon' = 0
    /\ pc' = "loop"
    /\ UNCHANGED <<consensus, actuals, bias_df, metrics, verdict, exported, queried>>

ReportHorizon ==
    /\ pc = "loop"
    /\ horizon \in ReportHorizons
    /\ LET df == calculate_spatial_bias(consensus, actuals, query.city,
                                        query.start_date, query.end_date, horizon)
           m == aggregate_bias_metrics(df)
           bias_detection == detect_persistent_bias(df, DEFAULT_THRESHOLD,
                                                    DEFAULT_MIN_DAYS)
       IN  /\ bias_df' = df
           /\ metrics' = (IF SkipHorizon(df) THEN metrics ELSE m)
           /\ verdict' = (IF SkipHorizon(df) THEN verdict ELSE bias_detection)
           /\ results' = (IF SkipHorizon(df) THEN results
                          ELSE Append(results,
                                      ReportRow(query.city, horizon, m, bias_detection)))
    /\ queried' = Append(queried, horizon)
    /\ horizon' = horizon + 1
    /\ UNCHANGED <<consensus, actuals, query, exported, pc>>

\* mutant: the rows built so far written out when the query fails
ReportQueryRaises_ExportsPartial ==
    /\ pc = "loop"
    /\ horizon \in ReportHorizons
    /\ queried' = Append(queried, horizon)
    /\ exported' = Append(exported, results)
    /\ pc' = "raised"
    /\ UNCHANGED <<consensus, actuals, query, bias_df, metrics, verdict, horizon,
                   results>>

ReportQueryRaises ==
    /\ pc = "loop"
    /\ horizon \in ReportHorizons
    /\ queried' = Append(queried, horizon)
    /\ pc' = "raised"
    /\ UNCHANGED <<consensus, actuals, query, bias_df, metrics, verdict, horizon,
                   results, exported>>

ExportReport ==
    /\ pc = "loop"
    /\ horizon \notin ReportHorizons
    /\ exported' = Append(exported, results)
    /\ pc' = "done"
    /\ UNCHANGED <<consensus, actuals, query, bias_df, metrics, verdict, horizon,
                   results, queried>>

ReportNext == ExportSummaryReport \/ ReportHorizon \/ ReportQueryRaises \/ ExportReport

ReportSpec == ReportInit /\ [][ReportNext]_vars

----------------------------------------------------------------------------
(* Properties of calculate_spatial_bias, under Spec *)

Records == {bias_df[i] : i \in 1..Len(bias_df)}

\* the consensus rows and observations a record of the output was joined from
SourceConsensus(rec) ==
    {sc \in consensus : /\ sc.city = rec.city
                        /\ sc.target_date = rec.target_date
                        /\ sc.forecast_horizon = rec.forecast_horizon}

SourceActuals(rec) ==
    {a \in actuals : a.city = rec.city /\ a.date = rec.target_date}

\* C1: no record of the output comes from a consensus row whose grid_count
\* is below 5; every output record has grid_count >= 5.
C1_FilteringInvariant ==
    pc = "returned" =>
        \A rec \in Records :
            /\ rec.grid_count >= 5
            /\ SourceConsensus(rec) # {}
            /\ \A sc \in SourceConsensus(rec) :
                   sc.grid_count = rec.grid_count /\ sc.grid_count >= 5

\* a thin consensus row (grid_count 4) matches the query and has an
\* observation, beside a usable row that was returned
C1_Witness ==
    /\ pc = "returned"
    /\ Len(bias_df) >= 1
    /\ \E sc \in consensus, a \in actuals :
        /\ sc.grid_count < 5
        /\ sc.city = query.city /\ sc.forecast_horizon = query.horizon
        /\ query.start_date <= sc.target_date /\ sc.target_date <= query.end_date
        /\ a.city = sc.city /\ a.date = sc.target_date

\* the dates for which the inner join has a row, stated on the stores
JoinDates ==
    {d \in Dates :
        /\ query.start_date <= d /\ d <= query.end_date
        /\ \E sc \in consensus : /\ sc.city = query.city
                                 /\ sc.target_date = d
                                 /\ sc.forecast_horizon = query.horizon
                                 /\ sc.grid_count >= 5
        /\ \E a \in actuals : a.city = query.city /\ a.date = d}

\* C2: the output holds a record for target date d exactly when d lies in
\* [start_date, end_date], a usable consensus row for (city, d, horizon)
\* exists and an observation for (city, d) exists; one record per such date,
\* in ascending target_date order; an empty result is returned normally.
C2_InnerJoin ==
    pc = "returned" =>
        /\ {rec.target_date : rec \in Records} = JoinDates
        /\ Len(bias_df) = Cardinality(JoinDates)
        /\ \A rec \in Records :
               rec.city = query.city /\ rec.forecast_horizon = query.horizon
        /\ \A i, j \in 1..Len(bias_df) :
               i < j => bias_df[i].target_date < bias_df[j].target_date

\* one date of the range is returned while another date of the range has a
\* usable consensus row but no observation
C2_Witness ==
    /\ pc = "returned"
    /\ Len(bias_df) = 1
    /\ \E sc \in consensus :
        /\ sc.city = query.city /\ sc.forecast_horizon = query.horizon
        /\ sc.grid_count >= 5
        /\ query.start_date <= sc.target_date /\ sc.target_date <= query.end_date
        /\ ~ \E a \in actuals : a.city = sc.city /\ a.date = sc.target_date

\* C3: in every output record high_bias = consensus_high - actual_high and
\* low_bias = consensus_low - actual_low, on the values of the joined rows;
\* high_bias > 0 exactly when the forecast high was above the observed high.
C3_SignConvention ==
    pc = "returned" =>
        \A rec \in Records :
            /\ SourceConsensus(rec) # {} /\ SourceActuals(rec) # {}
            /\ \A sc \in SourceConsensus(rec), a \in SourceActuals(rec) :
                /\ rec.consensus_high = sc.consensus_high
                /\ rec.consensus_low = sc.consensus_low
                /\ rec.actual_high = a.high_temp
                /\ rec.actual_low = a.low_temp
                /\ rec.high_bias = sc.consensus_high - a.high_temp
                /\ rec.low_bias = sc.consensus_low - a.low_temp
                /\ (rec.high_bias > 0) <=> (sc.consensus_high > a.high_temp)

\* a record whose forecast high ran warm and whose forecast low ran cold
C3_Witness ==
    /\ pc = "returned"
    /\ \E rec \in Records : rec.high_bias > 0 /\ rec.low_bias < 0

----------------------------------------------------------------------------
(* Properties of aggregate_bias_metrics and detect_persistent_bias, under  *)
(* StatsSpec.  The sums are taken here over the records of bias_df.        *)

RECURSIVE TotalOf(_, _, _)
TotalOf(i, name, power) ==
    IF i = 0 THEN 0
    ELSE LET x == bias_df[i][name]
             m == IF x < 0 THEN -x ELSE x
         IN  (CASE power = "signed" -> x
                [] power = "abs"    -> m
                [] power = "square" -> x * x) + TotalOf(i - 1, name, power)

NDays == Len(bias_df)
SumHigh == TotalOf(NDays, "high_bias", "signed")
SumLow == TotalOf(NDays, "low_bias", "signed")
SumAbsHigh == TotalOf(NDays, "high_bias", "abs")
SumAbsLow == TotalOf(NDays, "low_bias", "abs")
SumSqHigh == TotalOf(NDays, "high_bias", "square")
SumSqLow == TotalOf(NDays, "low_bias", "square")

Aggregated == pc \in {"aggregated", "classified"}

StatFields ==
    {"n_days", "mean_high_bias", "std_high_bias", "mean_low_bias", "std_low_bias",
     "mae_high", "mae_low", "rmse_high", "rmse_low"}

\* C4: on an empty sequence aggregate_bias_metrics returns the no-data
\* marker, a result with no statistic field at all (so none that is NaN); on
\* a non-empty sequence the summary's n_days is the number of input records.
C4_EmptyIsNoData ==
    Aggregated =>
        /\ NDays = 0 => DOMAIN metrics = {}
        /\ NDays > 0 => DOMAIN metrics = StatFields /\ metrics.n_days = NDays

\* aggregate_bias_metrics has returned on an empty DataFrame
C4_Witness == pc = "aggregated" /\ NDays = 0 /\ DOMAIN metrics = {}

\* x = num/den with den > 0
IsRatio(x, num, den) == x.kind = "rat" /\ x.den > 0 /\ x.num * den = num * x.den

\* sqrt(s.of) >= m for a rational m >= 0
RootAtLeast(s, m) ==
    /\ s.kind = "sqrt" /\ s.of.kind = "rat" /\ s.of.den > 0 /\ s.of.num >= 0
    /\ s.of.num * m.den * m.den >= m.num * m.num * s.of.den

C6_InsufficientSample ==
    pc = "classified" =>
        /\ NDays < query.min_days =>
            /\ DOMAIN verdict =
                   {"sufficient_data", "high_bias_detected", "low_bias_detected"}
            /\ verdict.sufficient_data = FALSE
            /\ verdict.high_bias_detected = FALSE
            /\ verdict.low_bias_detected = FALSE
        /\ NDays = query.min_days => verdict.sufficient_data = TRUE

\* 29 records, min_days 30, and a mean high bias of 0.6 above threshold 0.5
C6_Witness ==
    /\ pc = "classified"
    /\ NDays = 29 /\ query.min_days = 30 /\ query.threshold = 5
    /\ SumHigh = 6 * NDays
    /\ verdict.sufficient_data = FALSE

ChannelRule(detected, direction, magnitude, sum) ==
    /\ detected <=> (IF sum < 0 THEN -sum ELSE sum) > query.threshold * NDays
    /\ direction = (IF sum > 0 THEN "warm" ELSE "cold")
    /\ IF NDays = 0 THEN magnitude.kind = "nan"
       ELSE IsRatio(magnitude, IF sum < 0 THEN -sum ELSE sum, NDays)

----------------------------------------------------------------------------
(* Properties of export_summary_report, under ReportSpec *)

InReport == pc \in {"loop", "raised", "done"}

\* the days of the requested range matched for horizon h, stated on the stores
MatchedDays(h) ==
    {sc.target_date : sc \in
        {r \in consensus :
            /\ r.city = query.city
            /\ r.forecast_horizon = h
            /\ r.grid_count >= 5
            /\ query.start_date <= r.target_date /\ r.target_date <= query.end_date
            /\ \E a \in actuals : a.city = query.city /\ a.date = r.target_date}}

RowsOf(h) == {i \in 1..Len(results) : results[i].horizon_days = h}

\* horizons whose loop iteration has completed
Swept == {h \in 0..9 : h < horizon}

\* C8: the sweep visits exactly the horizons 0..9 in order; a row with
\* horizon_days = h is emitted iff at least one day is matched for h; so at
\* most one row per horizon, at most ten rows, every n_days >= 1, and the
\* rows are in strictly ascending horizon_days order.
C8_RowIffMatched ==
    InReport =>
        /\ \A h \in Swept : Cardinality(RowsOf(h)) = (IF MatchedDays(h) # {} THEN 1 ELSE 0)
        /\ \A i \in 1..Len(results) :
            /\ results[i].horizon_days \in Swept
            /\ results[i].n_days >= 1
            /\ results[i].n_days = Cardinality(MatchedDays(results[i].horizon_days))
        /\ \A i, j \in 1..Len(results) :
               i < j => results[i].horizon_days < results[j].horizon_days
        /\ Len(results) <= 10
        /\ pc = "done" => Swept = 0..9 /\ queried = [i \in 1..10 |-> i - 1]

\* only horizon 3 has matched days: the finished report is the single row 3
C8_Witness ==
    /\ pc = "done"
    /\ {h \in 0..9 : MatchedDays(h) # {}} = {3}
    /\ Len(results) = 1 /\ results[1].horizon_days = 3

C10_StoreFailure ==
    /\ pc = "raised" =>
        /\ exported = <<>>
        /\ queried = [i \in 1..(horizon + 1) |-> i - 1]
        /\ ~ ENABLED ReportNext
    /\ pc = "loop" =>
        /\ exported = <<>>
        /\ queried = [i \in 1..horizon |-> i - 1]
        /\ horizon \in 0..9 \/ ENABLED ExportReport
    /\ pc = "done" =>
        /\ exported = <<results>>
        /\ ~ ENABLED ReportNext

\* the query of horizon 4 failed after a row had been built
C10_Witness ==
    /\ pc = "raised"
    /\ horizon = 4
    /\ Len(results) >= 1
    /\ exported = <<>>

=============================================================================
